---- MODULE Spec2Model ----
(***************************************************************************)
(* wtd_shares: the query-parameter builder get_wtd_query_params and the    *)
(* ATR pipeline get_atr_dataframe of src/wtd_shares/utils.py.              *)
(*                                                                         *)
(* A datetime is its proleptic Gregorian ordinal (datetime.toordinal), a   *)
(* table cell is <<v>> for the number v and <<>> for pandas' NaN, a        *)
(* DataFrame is its row index with one cell sequence per column, and the   *)
(* value of sum(x) / 14 is kept as the exact fraction num/den.             *)
(*                                                                         *)
(* Line 96 hands the DataFrame constructor the JSON text of the history    *)
(* (json.dumps, line 93).  The model takes the table that line 95 says is  *)
(* loaded, one row per date key with numeric cells, which is the frame the *)
(* statements of lines 100..114 are written for.                           *)
(***************************************************************************)
EXTENDS Integers, Sequences, FiniteSets, TLC

VARIABLES pc, args, today, query_params, response, fetches, df, error, result

vars == <<pc, args, today, query_params, response, fetches, df, error, result>>

(* ---------------------------------------------------------------- bounds *)
\* the provider returns short histories, of 0..MaxShort records, and
\* histories about as long as the rolling window, of Window-1..Window+MaxOver
MaxShort == 2
MaxOver == 1
\* prices of the provider's records range over 0..MaxPrice
MaxPrice == 1
\* dates handed to get_wtd_query_params range over MaxDateSpan+1 days
MaxDateSpan == 4
\* previous_days ranges over 0..MaxPrevDays and the default
MaxPrevDays == 2

(* ------------------------------------------------------------- constants *)
\* default of previous_days
DefaultPreviousDays == 300
\* size of the rolling window of 'ATR (sma)'
Window == 14
\* divisor of the lambda applied to each window
Divisor == 14

(* ----------------------------------------------------------------- cells *)
None == <<>>
Some(v) == <<v>>

Abs(x) == IF x < 0 THEN -x ELSE x
Max2(x, y) == IF x >= y THEN x ELSE y

(* ------------------------------------------------------ dates, settings *)
\* settings.DATE_FORMAT = '%Y-%m-%d' as strftime renders it
IsLeap(y) == (y % 4 = 0) /\ ((y % 100 # 0) \/ (y % 400 = 0))

DaysInMonth(y, m) ==
    IF m = 2 THEN (IF IsLeap(y) THEN 29 ELSE 28)
    ELSE IF m \in {4, 6, 9, 11} THEN 30 ELSE 31

\* datetime.fromordinal: the <<year, month, day>> of an ordinal
RECURSIVE MonthDay(_, _, _)
MonthDay(y, m, n) ==
    IF n < DaysInMonth(y, m) THEN <<y, m, n + 1>>
    ELSE MonthDay(y, m + 1, n - DaysInMonth(y, m))

Ord2Ymd(ordinal) ==
    LET n0   == ordinal - 1
        n400 == n0 \div 146097
        r400 == n0 % 146097
        n100 == r400 \div 36524
        r100 == r400 % 36524
        n4   == r100 \div 1461
        r4   == r100 % 1461
        n1   == r4 \div 365
        r1   == r4 % 365
        year == n400 * 400 + 1 + n100 * 100 + n4 * 4 + n1
    IN  IF n1 = 4 \/ n100 = 4 THEN <<year - 1, 12, 31>>
        ELSE MonthDay(year, 1, r1)

Pad2(k) == IF k < 10 THEN "0" \o ToString(k) ELSE ToString(k)

date_format(date) ==
    LET ymd == Ord2Ymd(date)
    IN  ToString(ymd[1]) \o "-" \o Pad2(ymd[2]) \o "-" \o Pad2(ymd[3])

\* settings.WTD_API_TOKEN, read once from the environment
WTD_API_TOKEN == "token"

(* --------------------------------------------------- get_wtd_query_params *)
\* "if not end_date: end_date = datetime.today()"
ResolveEnd(end_date, now) == IF end_date = None THEN now ELSE end_date[1]

\* "if not start_date: start_date = end_date - timedelta(days=previous_days)"
ResolveStartAlwaysLookback(start_date, end, previous_days, now) ==
    end - previous_days
ResolveStart(start_date, end, previous_days, now) ==
    IF start_date = None THEN end - previous_days ELSE start_date[1]

get_wtd_query_params(a, now) ==
    LET end   == ResolveEnd(a.end_date, now)
        start == ResolveStart(a.start_date, end, a.previous_days, now)
    IN  [symbol    |-> a.symbol,
         sort      |-> a.sort,
         date_from |-> date_format(start),
         date_to   |-> date_format(end),
         api_token |-> WTD_API_TOKEN]

(* ------------------------------------------------- the provider's payload *)
\* the keys of one history record
Fields == {"open", "high", "low", "close", "volume"}

Prices == 0..MaxPrice

\* the date key of the k-th trading day of a payload (2018-10-15 onwards)
DateOf(k) == 736981 + k

\* the k-th day of a series whose high starts at h0 and rises day by day,
\* with low l and close c; a field holds <<>> when the record lacks the key
TrendRec(k, h0, l, c) ==
    [open |-> Some(l), high |-> Some(h0 + (k - 1)), low |-> Some(l),
     close |-> Some(c), volume |-> Some(0)]

Series(n, h0, l, c) == [k \in 1..n |-> TrendRec(k, h0, l, c)]

Lengths == 0..MaxShort \cup (Window - 1)..(Window + MaxOver)

\* at most one record of a payload differs from the trend, in one field:
\* another price, or the key is absent; <<0, f, v>> changes nothing
Changes(n) ==
    {<<0, "open", None>>}
    \cup {<<p, f, Some(x)>> : p \in 1..n, f \in {"high", "low", "close"}, x \in Prices}
    \cup {<<p, f, None>> : p \in 1..n, f \in Fields}

Changed(s, ch) ==
    IF ch[1] = 0 THEN s ELSE [s EXCEPT ![ch[1]] = [@ EXCEPT ![ch[2]] = ch[3]]]

\* the history object: its date keys in the order the JSON text lists them,
\* oldest first or newest first
KeyOrders == {"oldest", "newest"}

History(s, order) ==
    [i \in 1..Len(s) |->
        LET k == IF order = "oldest" THEN i ELSE Len(s) + 1 - i
        IN  [date |-> DateOf(k), rec |-> s[k]]]

\* the parsed response text: an object without the history key, or one
\* whose history is the series s in key order o
NoHistoryPayload == [has_history |-> FALSE, history |-> <<>>]
Payload(s, o) == [has_history |-> TRUE, history |-> History(s, o)]

(* ------------------------------------------------------ pandas operations *)
\* DataFrame(history).transpose(), "load into a DataFrame and transpose the
\* row/columns axes": one row per date key in key order, one column per key
\* any record has, NaN where a record lacks the key
DataFrameT(history) ==
    LET columns == {f \in Fields : \E i \in 1..Len(history) : history[i].rec[f] # None}
    IN  [index |-> [i \in 1..Len(history) |-> history[i].date],
         cols  |-> [f \in columns |-> [i \in 1..Len(history) |-> history[i].rec[f]]]]

HasCol(d, name) == name \in DOMAIN d.cols
Col(d, name) == d.cols[name]
SetCol(d, name, s) == [d EXCEPT !.cols = (name :> s) @@ d.cols]

\* Series - Series
SubSeries(a, b) ==
    [i \in 1..Len(a) |->
        IF a[i] = None \/ b[i] = None THEN None ELSE Some(a[i][1] - b[i][1])]

\* abs(Series)
AbsSeries(a) == [i \in 1..Len(a) |-> IF a[i] = None THEN None ELSE Some(Abs(a[i][1]))]

\* Series.shift(1)
Shift(a) == [i \in 1..Len(a) |-> IF i = 1 THEN None ELSE a[i - 1]]

\* DataFrame.max(axis=1) over two columns, skipna=True
RowMaxNoSkip(a, b) ==
    [i \in 1..Len(a) |->
        IF a[i] = None \/ b[i] = None THEN None ELSE Some(Max2(a[i][1], b[i][1]))]
RowMax(a, b) ==
    [i \in 1..Len(a) |->
        IF a[i] = None THEN b[i]
        ELSE IF b[i] = None THEN a[i]
        ELSE Some(Max2(a[i][1], b[i][1]))]

RECURSIVE Sum(_)
Sum(x) == IF x = <<>> THEN 0 ELSE x[1][1] + Sum(Tail(x))

\* lambda x: sum(x) / 14
SmaLambda(x) == [num |-> Sum(x), den |-> Divisor]

\* Series.rolling(w).apply(f): min_periods is w, a window holding NaN is NaN
RollingMinPeriodsOne(a, w) ==
    [i \in 1..Len(a) |->
        LET win == SelectSeq(SubSeq(a, Max2(1, i - w + 1), i), LAMBDA v : v # None)
        IN  IF win = <<>> THEN None ELSE Some(SmaLambda(win))]
RollingApply(a, w) ==
    [i \in 1..Len(a) |->
        IF i < w THEN None
        ELSE LET win == SubSeq(a, i - w + 1, i)
             IN  IF \E k \in 1..w : win[k] = None THEN None ELSE Some(SmaLambda(win))]

(* --------------------------------------------- derived columns, 100..114 *)
\* df['TH-TL'] = df['high'] - df['low']
THTLReversed(d) == SubSeries(Col(d, "low"), Col(d, "high"))
THTL(d) == SubSeries(Col(d, "high"), Col(d, "low"))

\* df['TH-YC'] = abs(df['high'] - df['low'].shift(1))
THYCFromClose(d) ==
    AbsSeries(SubSeries(Col(d, "high"),
                        Shift(Col(d, IF HasCol(d, "close") THEN "close" ELSE "low"))))
THYC(d) == AbsSeries(SubSeries(Col(d, "high"), Shift(Col(d, "low"))))

\* df['TL-YC'] = abs(df['low'] - df['close'].shift(1))
TLYC(d) == AbsSeries(SubSeries(Col(d, "low"), Shift(Col(d, "close"))))

\* df['True Range'] = df[['TH-TL', 'TL-YC']].max(axis=1)
TrueRangeWithTHYC(d) == RowMax(RowMax(Col(d, "TH-TL"), Col(d, "TH-YC")), Col(d, "TL-YC"))
TrueRangeNoSkip(d) == RowMaxNoSkip(Col(d, "TH-TL"), Col(d, "TL-YC"))
TrueRange(d) == RowMax(Col(d, "TH-TL"), Col(d, "TL-YC"))

\* df['ATR (sma)'] = df['True Range'].rolling(14).apply(lambda x: sum(x) / 14)
AtrSmaShortWindow(d) == RollingApply(Col(d, "True Range"), Window - 1)
AtrSma(d) == RollingApply(Col(d, "True Range"), Window)

KeyError(key, line) == Some([kind |-> "KeyError", key |-> key, at |-> line])

(* ------------------------------------------------------------ the calls *)
\* arguments of the direct calls of get_wtd_query_params
CallDates == {737482 + k : k \in 0..MaxDateSpan}

ParamArgs ==
    [symbol : {"UKX"},
     start_date : {None} \cup {Some(x) : x \in CallDates},
     end_date : {None} \cup {Some(x) : x \in CallDates},
     previous_days : 0..MaxPrevDays \cup {DefaultPreviousDays},
     sort : {"oldest"}]

\* arguments of the calls of get_atr_dataframe: the defaults, either sort key
AtrArgs ==
    [symbol : {"UKX"}, start_date : {None}, end_date : {None},
     previous_days : {DefaultPreviousDays}, sort : {"oldest"}]

\* the day get_atr_dataframe is called on (2020-03-01)
AtrClock == {737485}

Init ==
    /\ pc = "idle"
    /\ args = None
    /\ today = None
    /\ query_params = None
    /\ response = None
    /\ fetches = 0
    /\ df = None
    /\ error = None
    /\ result = None

\* a caller invokes get_wtd_query_params, 22..53
CallGetWtdQueryParams ==
    /\ pc = "idle"
    /\ \E a \in ParamArgs, now \in CallDates :
        /\ args' = Some(a)
        /\ today' = Some(now)
        /\ query_params' = Some(get_wtd_query_params(a, now))
    /\ pc' = "params_returned"
    /\ UNCHANGED <<response, fetches, df, error, result>>

\* get_atr_dataframe builds its query parameters, 69..71
AtrQueryParams ==
    /\ pc = "idle"
    /\ \E a \in AtrArgs, now \in AtrClock :
        /\ args' = Some(a)
        /\ today' = Some(now)
        /\ query_params' = Some(get_wtd_query_params(a, now))
    /\ pc' = "L74"
    /\ UNCHANGED <<response, fetches, df, error, result>>

\* requests.get and json.loads, 74..76: the provider answers with any payload
Fetch ==
    /\ pc = "L74"
    /\ \/ response' = Some(NoHistoryPayload)
       \/ \E n \in Lengths, h0 \in Prices, l \in Prices, c \in Prices, o \in KeyOrders :
            \E ch \in Changes(n) :
                response' = Some(Payload(Changed(Series(n, h0, l, c), ch), o))
    /\ fetches' = fetches + 1
    /\ pc' = "L93"
    /\ UNCHANGED <<args, today, query_params, df, error, result>>

\* data['history'] and the DataFrame, 93..96
ReadHistory ==
    /\ pc = "L93"
    /\ IF response[1].has_history
       THEN /\ df' = Some(DataFrameT(response[1].history))
            /\ pc' = "L100"
            /\ error' = error
       ELSE /\ error' = KeyError("history", "L93")
            /\ pc' = "raised"
            /\ df' = df
    /\ UNCHANGED <<args, today, query_params, response, fetches, result>>

\* one statement of the derived columns: it reads the columns `needs` and
\* adds `column` as the column `name`; a column the frame lacks raises KeyError
Statement(line, next, needs, name, column) ==
    /\ pc = line
    /\ LET d == df[1]
           missing == {k \in 1..Len(needs) : ~HasCol(d, needs[k])}
       IN  IF missing # {}
           THEN /\ error' = KeyError(needs[CHOOSE k \in missing : \A m \in missing : k <= m], line)
                /\ pc' = "raised"
                /\ df' = df
           ELSE /\ df' = Some(SetCol(d, name, column))
                /\ pc' = next
                /\ error' = error
    /\ UNCHANGED <<args, today, query_params, response, fetches, result>>

\* line 100
AddTHTL == Statement("L100", "L102", <<"high", "low">>, "TH-TL", THTL(df[1]))

\* line 102
AddTHYC == Statement("L102", "L103", <<"high", "low">>, "TH-YC", THYC(df[1]))

\* line 103
AddTLYC == Statement("L103", "L107", <<"low", "close">>, "TL-YC", TLYC(df[1]))

\* line 107
AddTrueRange == Statement("L107", "L114", <<"TH-TL", "TL-YC">>, "True Range", TrueRange(df[1]))

\* line 114
AddAtrSma == Statement("L114", "L116", <<"True Range">>, "ATR (sma)", AtrSma(df[1]))

\* return df, 116
Return ==
    /\ pc = "L116"
    /\ result' = df
    /\ pc' = "done"
    /\ UNCHANGED <<args, today, query_params, response, fetches, df, error>>

Next ==
    \/ CallGetWtdQueryParams
    \/ AtrQueryParams
    \/ Fetch
    \/ ReadHistory
    \/ AddTHTL
    \/ AddTHYC
    \/ AddTLYC
    \/ AddTrueRange
    \/ AddAtrSma
    \/ Return

Spec == Init /\ [][Next]_vars

(* ------------------------------------------------------------ properties *)
Done == pc = "done"
Rows == Len(result[1].index)
Cell(name, i) == result[1].cols[name][i]
Defined(x) == x # None

RECURSIVE SumTrueRange(_, _)
SumTrueRange(from, to) ==
    IF from > to THEN 0 ELSE Cell("True Range", from)[1] + SumTrueRange(from + 1, to)

HighAtLeastLow ==
    \A i \in 1..Rows :
        (Defined(Cell("high", i)) /\ Defined(Cell("low", i)))
        => Cell("high", i)[1] >= Cell("low", i)[1]

Finished == pc \in {"done", "raised"}

\* C6: a payload with an empty history object ends without an error, in an
\* empty result.
C6_EmptyHistoryGivesEmptyResult ==
    (Finished /\ response[1].has_history /\ response[1].history = <<>>)
    => (Done /\ error = None /\ Rows = 0)

\* C7: date_to is the given end_date, or the current date without one;
\* date_from is the given start_date whatever previous_days is, or the
\* resolved end date less previous_days days without one.
C7_DateRangeResolution ==
    Defined(query_params) =>
        LET a   == args[1]
            end == IF a.end_date = None THEN today[1] ELSE a.end_date[1]
        IN  /\ query_params[1].date_to = date_format(end)
            /\ a.start_date = None
                => query_params[1].date_from = date_format(end - a.previous_days)
            /\ Defined(a.start_date)
                => query_params[1].date_from = date_format(a.start_date[1])

\* get_wtd_query_params() called on 2020-03-01 with its defaults has returned
C7_Witness ==
    /\ pc = "params_returned"
    /\ args[1].start_date = None /\ args[1].end_date = None
    /\ args[1].previous_days = 300
    /\ query_params[1].date_to = "2020-03-01"
    /\ query_params[1].date_from = "2019-05-06"

Malformed(payload) ==
    \/ ~payload.has_history
    \/ \E i \in 1..Len(payload.history), f \in Fields : payload.history[i].rec[f] = None

RisingHighFlatLowClose ==
    /\ \A i \in 1..Rows :
        Defined(Cell("high", i)) /\ Defined(Cell("low", i)) /\ Defined(Cell("close", i))
    /\ \A i \in 1..(Rows - 1) :
        /\ Cell("high", i)[1] < Cell("high", i + 1)[1]
        /\ Cell("low", i) = Cell("low", i + 1)
        /\ Cell("close", i) = Cell("close", i + 1)

RisingTrueRangeOneAtr ==
    /\ \A i \in 1..Rows : Defined(Cell("True Range", i))
    /\ \A i \in 1..(Rows - 1) : Cell("True Range", i)[1] < Cell("True Range", i + 1)[1]
    /\ \A i \in 1..Rows : Defined(Cell("ATR (sma)", i)) <=> i = 14
    /\ Cell("ATR (sma)", 14)[1].num = SumTrueRange(1, 14)
    /\ Cell("ATR (sma)", 14)[1].den = 14

CloseWithinRange ==
    \A i \in 1..Rows :
        /\ Cell("low", i)[1] <= Cell("close", i)[1]
        /\ Cell("close", i)[1] <= Cell("high", i)[1]

====
